---- MODULE Spec2Model ----
(***************************************************************************)
(* Model of app/main.py: a FastAPI process with two routes, GET /health    *)
(* and POST /chat.  /chat regroups role-tagged messages into a system      *)
(* instruction plus provider turns, calls the Gemini client once and       *)
(* unwraps the text of the answer.                                         *)
(*                                                                         *)
(* Message contents are sequences of characters, because the handler       *)
(* concatenates them ("\n".join); the empty sequence is the empty string.  *)
(* Model identifiers, provider texts and error descriptions are only       *)
(* compared and passed on, and are kept as strings ("" is the empty one).  *)
(* A Python Optional is None or Some(v).                                   *)
(***************************************************************************)
EXTENDS Naturals, Sequences, FiniteSets, TLC

\* ---------------------------------------------------------------- bounds
\* longest message list of a request, one handler thread at a time
MaxMsgs == 2
\* handler threads that serve /chat concurrently
MaxHandlers == 2

\* ---------------------------------------------------------------- values
None == [isNone |-> TRUE]
Some(v) == [isNone |-> FALSE, val |-> v]

NL == "\n"
Roles == {"system", "user", "assistant", "narrator"}
Texts == {<<>>, <<"a">>}
Messages == [role : Roles, content : Texts]
ModelChoices == {None, Some(""), Some("gemini-pro")}
EnvKeys == {None, Some(""), Some("key")}
EnvModels == {None, Some("gemini-env")}
ProviderTexts == {None, Some(""), Some("hi")}
Exceptions == {[msg |-> "quota exceeded"]}

SeqsUpTo(S, n) == UNION {[1..k -> S] : k \in 0..n}
Requests(n) == [messages : SeqsUpTo(Messages, n), model : ModelChoices]

\* the requests that concurrent handlers are given: no message or one message
\* of each kind that takes a different path, with and without a model of their own
ConcMessages == {m \in Messages : m.role \in {"system", "user"} /\ m.content = <<"a">>}
ConcRequests ==
    [messages : {<<>>} \cup {<<m>> : m \in ConcMessages},
     model : {None, Some("gemini-pro")}]

\* ---------------------------------------------------------------- state
VARIABLES
    env,                    \* the process environment (os.environ)
    phase,                  \* "starting", "failed" (import raised), "serving"
    GEMINI_MODEL_DEFAULT,   \* module global, set at import
    GEMINI_API_KEY,         \* module global, set at import
    client,                 \* module global: the genai.Client handle
    pc,                     \* per handler thread: "idle", "waiting", "done"
    req,                    \* per handler thread: the ChatRequest it serves
    sent,                   \* per handler thread: generate_content calls made
    outcome,                \* per handler thread: what ended the try block
    resp,                   \* per handler thread: the HTTP response
    healthResp              \* the last response of GET /health

vars == <<env, phase, GEMINI_MODEL_DEFAULT, GEMINI_API_KEY, client,
          pc, req, sent, outcome, resp, healthResp>>

globals == <<env, phase, GEMINI_MODEL_DEFAULT, GEMINI_API_KEY, client>>

Handlers == DOMAIN pc

\* ---------------------------------------------------------------- Python
\* truth value of an Optional[str]: None and "" are falsy
Truthy(o) == ~o.isNone /\ o.val # ""

\* truth value of an optional text (sequence of characters)
TruthyText(o) == ~o.isNone /\ o.val # <<>>

\* os.getenv(name, default)
Getenv(o, default) == IF o.isNone THEN default ELSE o.val

KeyMissingNoneOnly(k) == k.isNone

\* "if not GEMINI_API_KEY"
KeyMissing(k) == ~Truthy(k)

ModelNameIfGiven(model, default) == IF model.isNone THEN default ELSE model.val

\* model_name = req.model or GEMINI_MODEL_DEFAULT
ModelName(model, default) == IF Truthy(model) THEN model.val ELSE default

\* [m.content for m in req.messages if m.role == "system"]
SystemMessages(messages) ==
    LET sys == SelectSeq(messages, LAMBDA m : m.role = "system")
    IN  [i \in 1..Len(sys) |-> sys[i].content]

RECURSIVE JoinNoSep(_)
JoinNoSep(parts) == IF parts = <<>> THEN <<>> ELSE parts[1] \o JoinNoSep(Tail(parts))

\* "\n".join(parts)
RECURSIVE Join(_)
Join(parts) ==
    IF parts = <<>> THEN <<>>
    ELSE IF Len(parts) = 1 THEN parts[1]
    ELSE parts[1] \o <<NL>> \o Join(Tail(parts))

\* system_instruction = "\n".join(system_messages) if system_messages else None
SystemInstruction(messages) ==
    LET system_messages == SystemMessages(messages)
    IN  IF system_messages # <<>> THEN Some(Join(system_messages)) ELSE None

GeminiRolePass(role) == IF role = "assistant" THEN "model" ELSE role

\* the if / elif / else that picks the Gemini role
GeminiRole(role) ==
    IF role = "user" THEN "user"
    ELSE IF role = "assistant" THEN "model"
    ELSE "user"

\* types.Content(role=role, parts=[types.Part.from_text(text=m.content)])
Content(role, text) == [role |-> role, parts |-> <<[text |-> text]>>]

\* the loop over req.messages that fills contents
RECURSIVE Contents(_)
Contents(messages) ==
    IF messages = <<>> THEN <<>>
    ELSE LET m == Head(messages)
         IN  IF m.role = "system"
             THEN Contents(Tail(messages))
             ELSE <<Content(GeminiRole(m.role), m.content)>> \o Contents(Tail(messages))

ConfigAlways(system_instruction) ==
    Some([system_instruction |->
            IF system_instruction.isNone THEN <<>> ELSE system_instruction.val])

\* config = None; if system_instruction: config = GenerateContentConfig(...)
Config(system_instruction) ==
    IF TruthyText(system_instruction)
    THEN Some([system_instruction |-> system_instruction.val])
    ELSE None

\* the keyword arguments of client.models.generate_content
CallArgs(r, default) ==
    [model    |-> ModelName(r.model, default),
     contents |-> Contents(r.messages),
     config   |-> Config(SystemInstruction(r.messages))]

ReplyTextStr(text) == IF text.isNone THEN "None" ELSE text.val

\* reply_text = response.text or ""
ReplyText(text) == IF Truthy(text) THEN text.val ELSE ""

\* ChatResponse(reply=reply_text), sent with status 200
ChatResponse(reply) == [status |-> 200, body |-> [reply |-> reply]]

\* HTTPException(status_code=500, detail=str(e))
HTTPException(e) == [status |-> 500, body |-> [detail |-> e.msg]]

\* ---------------------------------------------------------------- actions
InitWith(n) ==
    /\ env \in [GEMINI_API_KEY : EnvKeys, GEMINI_MODEL : EnvModels]
    /\ phase = "starting"
    /\ GEMINI_MODEL_DEFAULT = None
    /\ GEMINI_API_KEY = None
    /\ client = None
    /\ pc = [h \in 1..n |-> "idle"]
    /\ req = [h \in 1..n |-> None]
    /\ sent = [h \in 1..n |-> <<>>]
    /\ outcome = [h \in 1..n |-> None]
    /\ resp = [h \in 1..n |-> None]
    /\ healthResp = None

\* import of the module: lines 11-18
Startup ==
    /\ phase = "starting"
    /\ GEMINI_MODEL_DEFAULT' = Some(Getenv(env.GEMINI_MODEL, "gemini-2.5-flash"))
    /\ GEMINI_API_KEY' = env.GEMINI_API_KEY
    /\ IF KeyMissing(env.GEMINI_API_KEY)
       THEN /\ phase' = "failed"
            /\ client' = client
       ELSE /\ phase' = "serving"
            /\ client' = Some([api_key |-> env.GEMINI_API_KEY.val])
    /\ UNCHANGED <<env, pc, req, sent, outcome, resp, healthResp>>

HealthBusy ==
    /\ phase = "serving"
    /\ healthResp' =
          IF \E h \in Handlers : pc[h] = "waiting"
          THEN Some([status |-> 503, body |-> [status |-> "busy"]])
          ELSE Some([status |-> 200, body |-> [status |-> "ok"]])
    /\ UNCHANGED <<globals, pc, req, sent, outcome, resp>>

\* GET /health
Health ==
    /\ phase = "serving"
    /\ healthResp' = Some([status |-> 200, body |-> [status |-> "ok"]])
    /\ UNCHANGED <<globals, pc, req, sent, outcome, resp>>

ChatLeaky(h, r) ==
    /\ phase = "serving"
    /\ pc[h] = "idle"
    /\ pc' = [pc EXCEPT ![h] = "waiting"]
    /\ req' = [req EXCEPT ![h] = Some(r)]
    /\ sent' = [sent EXCEPT ![h] = Append(@, CallArgs(r, GEMINI_MODEL_DEFAULT.val))]
    /\ GEMINI_MODEL_DEFAULT' = Some(ModelName(r.model, GEMINI_MODEL_DEFAULT.val))
    /\ UNCHANGED <<env, phase, GEMINI_API_KEY, client, outcome, resp, healthResp>>

\* POST /chat up to the point where generate_content has been called
Chat(h, r) ==
    /\ phase = "serving"
    /\ pc[h] = "idle"
    /\ pc' = [pc EXCEPT ![h] = "waiting"]
    /\ req' = [req EXCEPT ![h] = Some(r)]
    /\ sent' = [sent EXCEPT ![h] = Append(@, CallArgs(r, GEMINI_MODEL_DEFAULT.val))]
    /\ UNCHANGED <<globals, outcome, resp, healthResp>>

\* POST /chat when a constructor of google.genai.types raises before the call
ChatTransformRaise(h, r, e) ==
    /\ phase = "serving"
    /\ pc[h] = "idle"
    /\ pc' = [pc EXCEPT ![h] = "done"]
    /\ req' = [req EXCEPT ![h] = Some(r)]
    /\ outcome' = [outcome EXCEPT ![h] = Some([by |-> "transform", exc |-> e])]
    /\ resp' = [resp EXCEPT ![h] = Some(HTTPException(e))]
    /\ UNCHANGED <<globals, sent, healthResp>>

\* generate_content returns; the handler builds the reply
ProviderReturn(h, text) ==
    /\ pc[h] = "waiting"
    /\ pc' = [pc EXCEPT ![h] = "done"]
    /\ outcome' = [outcome EXCEPT ![h] = Some([by |-> "returned", text |-> text])]
    /\ resp' = [resp EXCEPT ![h] = Some(ChatResponse(ReplyText(text)))]
    /\ UNCHANGED <<globals, req, sent, healthResp>>

ProviderRaiseSwallow(h, e) ==
    /\ pc[h] = "waiting"
    /\ pc' = [pc EXCEPT ![h] = "done"]
    /\ outcome' = [outcome EXCEPT ![h] = Some([by |-> "provider", exc |-> e])]
    /\ resp' = [resp EXCEPT ![h] = Some(ChatResponse(""))]
    /\ UNCHANGED <<globals, req, sent, healthResp>>

ProviderRaiseRetry(h, e) ==
    /\ pc[h] = "waiting"
    /\ sent' = [sent EXCEPT ![h] = Append(@, @[1])]
    /\ UNCHANGED <<globals, pc, req, outcome, resp, healthResp>>

\* generate_content raises; the except clause turns it into a 500
ProviderRaise(h, e) ==
    /\ pc[h] = "waiting"
    /\ pc' = [pc EXCEPT ![h] = "done"]
    /\ outcome' = [outcome EXCEPT ![h] = Some([by |-> "provider", exc |-> e])]
    /\ resp' = [resp EXCEPT ![h] = Some(HTTPException(e))]
    /\ UNCHANGED <<globals, req, sent, healthResp>>

\* the response is written out and the thread is free again
Respond(h) ==
    /\ pc[h] = "done"
    /\ pc' = [pc EXCEPT ![h] = "idle"]
    /\ req' = [req EXCEPT ![h] = None]
    /\ sent' = [sent EXCEPT ![h] = <<>>]
    /\ outcome' = [outcome EXCEPT ![h] = None]
    /\ resp' = [resp EXCEPT ![h] = None]
    /\ UNCHANGED <<globals, healthResp>>

NextWith(R) ==
    \/ Startup
    \/ Health
    \/ \E h \in Handlers, r \in R : Chat(h, r)
    \/ \E h \in Handlers, r \in R, e \in Exceptions : ChatTransformRaise(h, r, e)
    \/ \E h \in Handlers, text \in ProviderTexts : ProviderReturn(h, text)
    \/ \E h \in Handlers, e \in Exceptions : ProviderRaise(h, e)
    \/ \E h \in Handlers : Respond(h)

\* one handler thread, longer requests
Init == InitWith(1)
Next == NextWith(Requests(MaxMsgs))
Spec == Init /\ [][Next]_vars

\* several handler threads
InitConc == InitWith(MaxHandlers)
NextConc == NextWith(ConcRequests)
SpecConc == InitConc /\ [][NextConc]_vars

\* ---------------------------------------------------------------- claims
\* handlers whose request has reached the provider
Called == {h \in Handlers : sent[h] # <<>>}
MsgsOf(h) == req[h].val.messages
ArgsOf(h) == sent[h][1]
NonSystem(msgs) == {i \in 1..Len(msgs) : msgs[i].role # "system"}
AllSystem(msgs) == NonSystem(msgs) = {}
Known == {"system", "user", "assistant"}

\* the turn the provider is to receive for one non-system message
TurnFor(m) ==
    [role  |-> CASE m.role = "user" -> "user"
                 [] m.role = "assistant" -> "model"
                 [] OTHER -> "user",
     parts |-> <<[text |-> m.content]>>]

\* C1: the turns passed to the provider are exactly the non-system messages of
\* the request, one turn each and in the order received; a turn's role is
\* "user" for "user", "model" for "assistant" and "user" for any other
\* non-system role; and a request whose provider call returned is answered
\* with status 200 whatever its roles are.
C1_TurnsAreNonSystemMessages ==
    /\ \A h \in Called :
          LET msgs == MsgsOf(h)
              turns == ArgsOf(h).contents
          IN  /\ Len(turns) = Cardinality(NonSystem(msgs))
              /\ \E f \in [1..Len(turns) -> NonSystem(msgs)] :
                    /\ \A j, k \in 1..Len(turns) : j < k => f[j] < f[k]
                    /\ \A k \in 1..Len(turns) : turns[k] = TurnFor(msgs[f[k]])
    /\ \A h \in Handlers :
          (pc[h] = "done" /\ outcome[h].val.by = "returned") => resp[h].val.status = 200

C1_Witness ==
    \E h \in Handlers :
        /\ pc[h] = "done"
        /\ resp[h].val.status = 200
        /\ Len(MsgsOf(h)) = 2
        /\ MsgsOf(h)[1].role = "assistant"
        /\ MsgsOf(h)[2].role = "narrator"
        /\ ArgsOf(h).contents = <<TurnFor(MsgsOf(h)[1]), TurnFor(MsgsOf(h)[2])>>

\* the contents of an all-system message list
ContentsOf(msgs) == [i \in 1..Len(msgs) |-> msgs[i].content]

\* where part k starts in the newline-joined text: after the parts before it
\* and one newline for each of them
RECURSIVE Offset(_, _)
Offset(parts, k) == IF k = 1 THEN 0 ELSE Offset(parts, k - 1) + Len(parts[k - 1]) + 1

JoinedLen(parts) ==
    IF parts = <<>> THEN 0 ELSE Offset(parts, Len(parts)) + Len(parts[Len(parts)])

\* text is the parts in order with one newline between neighbours
IsJoined(text, parts) ==
    /\ Len(text) = JoinedLen(parts)
    /\ \A k \in 1..Len(parts) :
          LET off == Offset(parts, k)
          IN  /\ SubSeq(text, off + 1, off + Len(parts[k])) = parts[k]
              /\ k < Len(parts) => text[off + Len(parts[k]) + 1] = NL

\* C2 as claimed: for every request whose messages are all "system", empty
\* contents included, the provider receives no turns and a non-empty system
\* instruction equal to the newline-joined contents.
C2_AsClaimed ==
    \A h \in Called :
        (MsgsOf(h) # <<>> /\ AllSystem(MsgsOf(h))) =>
            /\ ArgsOf(h).contents = <<>>
            /\ ~ArgsOf(h).config.isNone
            /\ ArgsOf(h).config.val.system_instruction # <<>>
            /\ IsJoined(ArgsOf(h).config.val.system_instruction, ContentsOf(MsgsOf(h)))

\* C2 amended: for every request whose messages are all "system" the provider
\* receives no turns; when the newline-joined contents are a non-empty text the
\* system instruction is that text, and when they are empty (no message, or
\* one message with empty content) no system instruction is passed.
C2_AllSystemRequest ==
    \A h \in Called :
        AllSystem(MsgsOf(h)) =>
            /\ ArgsOf(h).contents = <<>>
            /\ IF JoinedLen(ContentsOf(MsgsOf(h))) > 0
               THEN /\ ~ArgsOf(h).config.isNone
                    /\ IsJoined(ArgsOf(h).config.val.system_instruction,
                                ContentsOf(MsgsOf(h)))
               ELSE ArgsOf(h).config = None

C2_Witness ==
    \E h \in Called :
        /\ Len(MsgsOf(h)) = 2
        /\ AllSystem(MsgsOf(h))
        /\ ContentsOf(MsgsOf(h)) = << <<"a">>, <<>> >>
        /\ ArgsOf(h).config = Some([system_instruction |-> <<"a", NL>>])

\* C3: a request without any "system" message reaches the provider with no
\* config, hence with no system instruction.
C3_NoSystemNoConfig ==
    \A h \in Called :
        (\A i \in 1..Len(MsgsOf(h)) : MsgsOf(h)[i].role # "system") =>
            ArgsOf(h).config = None

C3_Witness ==
    \E h \in Called :
        /\ Len(MsgsOf(h)) = 2
        /\ \A i \in 1..2 : MsgsOf(h)[i].role \in {"user", "assistant"}
        /\ ArgsOf(h).config = None
Done == {h \in Handlers : pc[h] = "done"}
Raised == {h \in Done : outcome[h].val.by \in {"provider", "transform"}}
Returned == {h \in Done : outcome[h].val.by = "returned"}

\* C4: when the provider call or a step before it raises, the request ends
\* with status 500 whose detail is the text of the error and carries no reply;
\* a finished request has either a reply or an error detail, never both, and
\* an unfinished one has no response at all.
C4_ErrorBecomes500 ==
    /\ \A h \in Raised :
          /\ resp[h].val.status = 500
          /\ resp[h].val.body.detail = outcome[h].val.exc.msg
          /\ "reply" \notin DOMAIN resp[h].val.body
    /\ \A h \in Done :
          \/ resp[h].val.status = 200 /\ DOMAIN resp[h].val.body = {"reply"}
          \/ resp[h].val.status = 500 /\ DOMAIN resp[h].val.body = {"detail"}
    /\ \A h \in Handlers \ Done : resp[h] = None

C4_Witness ==
    \E h \in Raised :
        /\ outcome[h].val.by = "provider"
        /\ sent[h] # <<>>
        /\ resp[h].val = [status |-> 500, body |-> [detail |-> "quota exceeded"]]

\* C5: when the provider call returns, the request succeeds; the reply is the
\* empty string if the provider's text is None or empty and the provider's
\* text unchanged otherwise.
C5_ReplyIsTextOrEmpty ==
    \A h \in Returned :
        LET text == outcome[h].val.text
        IN  /\ resp[h].val.status = 200
            /\ "reply" \in DOMAIN resp[h].val.body
            /\ (text.isNone \/ text = Some("")) => resp[h].val.body.reply = ""
            /\ ~(text.isNone \/ text = Some("")) => resp[h].val.body.reply = text.val

C5_Witness ==
    \E h \in Returned :
        /\ outcome[h].val.text = None
        /\ resp[h].val = [status |-> 200, body |-> [reply |-> ""]]

\* C6: a request makes at most one provider call; it has made exactly one
\* once the transformation succeeded, none if the transformation raised; a
\* failed call is not repeated; and a response exists only after the call
\* returned or raised.
C6_OneProviderCall ==
    \A h \in Handlers :
        /\ Len(sent[h]) <= 1
        /\ pc[h] = "idle" => Len(sent[h]) = 0
        /\ pc[h] = "waiting" => (Len(sent[h]) = 1 /\ resp[h] = None /\ outcome[h] = None)
        /\ pc[h] = "done" =>
              /\ ~outcome[h].isNone
              /\ outcome[h].val.by \in {"returned", "provider"} => Len(sent[h]) = 1
              /\ outcome[h].val.by = "transform" => Len(sent[h]) = 0
        /\ ~resp[h].isNone => pc[h] = "done"

C6_Witness ==
    \E h \in Done :
        /\ outcome[h].val.by = "provider"
        /\ Len(sent[h]) = 1
        /\ resp[h].val.status = 500

\* the default model the configuration gives
ConfiguredDefault ==
    IF env.GEMINI_MODEL.isNone THEN "gemini-2.5-flash" ELSE env.GEMINI_MODEL.val

\* C7 as claimed: the model passed to the provider is the request's model for
\* every string the request supplies, and the configured default only when the
\* request supplies none.
C7_AsClaimed ==
    \A h \in Called :
        LET model == req[h].val.model
        IN  /\ ~model.isNone => ArgsOf(h).model = model.val
            /\ model.isNone => ArgsOf(h).model = ConfiguredDefault

\* C7 amended: the model passed to the provider is the request's model when
\* the request supplies a non-empty string, and the configured default when
\* the request supplies none or the empty string.
C7_ModelOverrideOrDefault ==
    \A h \in Called :
        LET model == req[h].val.model
        IN  /\ (~model.isNone /\ model.val # "") => ArgsOf(h).model = model.val
            /\ (model.isNone \/ model = Some("")) => ArgsOf(h).model = ConfiguredDefault

C7_Witness ==
    \E h \in Called :
        /\ req[h].val.model = Some("")
        /\ env.GEMINI_MODEL = Some("gemini-env")
        /\ ArgsOf(h).model = "gemini-env"

\* C8: with the API credential unset or empty, startup fails and the process
\* never serves: no health response, no chat request taken, no provider call;
\* the process serves only with a credential, read once at startup.
C8_NoCredentialNoService ==
    LET absent == env.GEMINI_API_KEY.isNone \/ env.GEMINI_API_KEY = Some("")
    IN  /\ absent => phase \in {"starting", "failed"}
        /\ (absent /\ phase # "starting") => phase = "failed"
        /\ phase # "serving" =>
              /\ healthResp = None
              /\ client = None
              /\ \A h \in Handlers :
                    pc[h] = "idle" /\ sent[h] = <<>> /\ req[h] = None /\ resp[h] = None
        /\ phase = "serving" => (~absent /\ GEMINI_API_KEY = env.GEMINI_API_KEY)

C8_Witness ==
    /\ phase = "failed"
    /\ env.GEMINI_API_KEY = Some("")

OkResponse == Some([status |-> 200, body |-> [status |-> "ok"]])

\* C9: once the process serves, GET /health can be answered in every state,
\* and every answer is 200 {"status": "ok"} and leaves the configuration, the
\* chat requests in flight and the provider calls as they were.
C9_HealthAlwaysOk ==
    /\ [](phase = "serving" => ENABLED Health)
    /\ [][healthResp' # healthResp =>
            /\ healthResp' = OkResponse
            /\ UNCHANGED <<globals, pc, req, sent, outcome, resp>>]_vars
    /\ [](healthResp \in {None, OkResponse})

C9_Witness ==
    /\ healthResp = OkResponse
    /\ \E h1, h2 \in Handlers :
          /\ pc[h1] = "waiting"
          /\ pc[h2] = "done"
          /\ resp[h2].val.status = 500

\* the per-request state of one handler
Local(h) == <<pc[h], req[h], sent[h], outcome[h], resp[h]>>

\* C10: under any interleaving, the provider arguments of a request are
\* decided by its body and the startup configuration, and its response by its
\* body and the provider's answer to it: two requests with the same body get
\* the same arguments, and with the same answer the same response; a step of
\* one request changes no other request's state; the default model and the
\* client handle stay what startup made them.
C10_RequestsAreIndependent ==
    /\ [](\A h1, h2 \in Called : req[h1] = req[h2] => sent[h1] = sent[h2])
    /\ [](\A h1, h2 \in Done :
            (req[h1] = req[h2] /\ outcome[h1] = outcome[h2]) => resp[h1] = resp[h2])
    /\ [](phase = "serving" =>
            /\ GEMINI_MODEL_DEFAULT = Some(ConfiguredDefault)
            /\ client = Some([api_key |-> env.GEMINI_API_KEY.val]))
    /\ [][\A h1, h2 \in Handlers :
            (Local(h1)' # Local(h1) /\ h1 # h2) => Local(h2)' = Local(h2)]_vars
    /\ [][phase = "serving" => UNCHANGED globals]_vars

C10_Witness ==
    \E h1, h2 \in Called :
        /\ h1 # h2
        /\ req[h1] = req[h2]
        /\ req[h1].val.model = None
        /\ pc[h1] = "done"
        /\ pc[h2] = "waiting"
        /\ sent[h1] = sent[h2]
====
